---- MODULE Spec2Model ----
\* A model of the stack-based state machine of westworld-bevy-ecs/src/fsm.rs:
\* the StateStack, the five transition requests and the lifecycle callbacks
\* the engine fires on a handler while it applies a request.
EXTENDS Integers, Sequences, FiniteSets, TLC

\* ------------------------------------------------------------------ bounds
\* number of engine calls (update / push / stop) made on one stack
MaxOps == 4

\* ------------------------------------------------------------- state values
\* tests::State
State == {"A", "B"}

NoState == "-"

\* tests::sm_test seeds the context with (0, 10): data.1, the amount Test's
\* on_start adds to data.0
Increment == 10

\* StateTransition<S>: a request is a tag and, for Push and Switch, a state
StateTransition ==
    {[type |-> t, st |-> NoState] : t \in {"None", "Pop", "Quit"}}
        \cup {[type |-> t, st |-> s] : t \in {"Push", "Switch"}, s \in State}

TransNone == [type |-> "None", st |-> NoState]

\* ------------------------------------------------------------------- state
VARIABLES
    stack,   \* StateStack::state_stack, bottom first, top last
    data,    \* the context's counter (data.0 of tests::StateData)
    trace,   \* every handler callback the engine has invoked, in order
    ops      \* the constructor and the engine calls made so far, in order

vars == <<stack, data, trace, ops>>

\* --------------------------------------------------------------- StateStack
Top(s) == s[Len(s)]

Front(s) == SubSeq(s, 1, Len(s) - 1)

\* StateStack::new
new == <<>>

\* StateStack::new_initial_state
new_initial_state(initial_state) == <<initial_state>>

\* StateStack::is_empty
is_empty(s) == Len(s) = 0

\* StateMachine::is_running
is_running(s) == ~is_empty(s)

\* -------------------------------------------------------------- the miner
\* MinerState
MinerState ==
    {"EnterMineAndDigForNugget", "VisitBankAndDepositGold", "QuenchThirst",
     "GoHomeAndSleepTilRested"}

COMFORT_LEVEL == 5

MAX_NUGGETS == 3

THIRST_LEVEL == 5

TIREDNESS_THRESHOLD == 5

\* Miner::new, with the Location init_miners inserts beside it
Miner_new ==
    [gold |-> 0, bank |-> 0, thirst |-> 0, fatigue |-> 0, location |-> "Shack"]

\* Miner::add_to_gold_carried
add_to_gold_carried(d, gold) ==
    LET g == d.gold + gold
    IN  [d EXCEPT !.gold = IF g < 0 THEN 0 ELSE g]

\* Miner::increase_fatigue
increase_fatigue(d) == [d EXCEPT !.fatigue = @ + 1]

\* Miner::decrease_fatigue
decrease_fatigue(d) == [d EXCEPT !.fatigue = @ - 1]

\* pockets_full with > in place of >=
pockets_full_strict(d) == d.gold > MAX_NUGGETS

\* Miner::pockets_full
pockets_full(d) == d.gold >= MAX_NUGGETS

\* Miner::increase_thirst
increase_thirst(d) == [d EXCEPT !.thirst = @ + 1]

\* Miner::thirsty
thirsty(d) == d.thirst > THIRST_LEVEL

\* Miner::buy_and_drink_whiskey
buy_and_drink_whiskey(d) == [d EXCEPT !.bank = @ - 2, !.thirst = 0]

\* a deposit that empties the pockets and credits nothing
move_gold_to_bank_lost(d) == [d EXCEPT !.gold = 0]

\* Miner::move_gold_to_bank
move_gold_to_bank(d) == [d EXCEPT !.bank = @ + d.gold, !.gold = 0]

\* Miner::wealth
wealth(d) == d.bank

\* Miner::fatigued
fatigued(d) == d.fatigue > TIREDNESS_THRESHOLD

SwitchTo(s) == [type |-> "Switch", st |-> s]

\* the Location each state's on_start walks to
Place(st) ==
    CASE st = "EnterMineAndDigForNugget" -> "Goldmine"
      [] st = "VisitBankAndDepositGold" -> "Bank"
      [] st = "GoHomeAndSleepTilRested" -> "Shack"
      [] st = "QuenchThirst" -> "Saloon"

\* MinerHandler::on_start: every state's on_start moves the miner to its place
miner_on_start(st, d) ==
    IF d.location # Place(st) THEN [d EXCEPT !.location = Place(st)] ELSE d

\* MinerHandler::on_resume: the mine and the bank resume as they start, the
\* shack and the saloon keep the default no-op
miner_on_resume(st, d) ==
    IF st \in {"EnterMineAndDigForNugget", "VisitBankAndDepositGold"}
    THEN miner_on_start(st, d)
    ELSE d

\* the dig state's update with the thirst test negated
dig_update_not_thirsty(d) ==
    LET d1 == increase_fatigue(add_to_gold_carried(increase_thirst(d), 1))
    IN  [data |-> d1,
         trans |-> IF pockets_full(d1)
                   THEN SwitchTo("VisitBankAndDepositGold")
                   ELSE IF ~thirsty(d1)
                        THEN SwitchTo("QuenchThirst")
                        ELSE TransNone]

\* EnterMineAndDigForNugget::update
dig_update(d) ==
    LET d1 == increase_fatigue(add_to_gold_carried(increase_thirst(d), 1))
    IN  [data |-> d1,
         trans |-> IF pockets_full(d1)
                   THEN SwitchTo("VisitBankAndDepositGold")
                   ELSE IF thirsty(d1)
                        THEN SwitchTo("QuenchThirst")
                        ELSE TransNone]

\* VisitBankAndDepositGold::update
bank_update(d) ==
    LET d1 == move_gold_to_bank(increase_thirst(d))
    IN  [data |-> d1,
         trans |-> IF wealth(d1) >= COMFORT_LEVEL
                   THEN SwitchTo("GoHomeAndSleepTilRested")
                   ELSE SwitchTo("EnterMineAndDigForNugget")]

\* GoHomeAndSleepTilRested::update
home_update(d) ==
    LET d1 == increase_thirst(d)
    IN  IF ~fatigued(d1)
        THEN [data |-> d1, trans |-> SwitchTo("EnterMineAndDigForNugget")]
        ELSE [data |-> decrease_fatigue(d1), trans |-> TransNone]

\* QuenchThirst::update
quench_update(d) ==
    LET d1 == increase_thirst(d)
    IN  IF thirsty(d1)
        THEN [data |-> buy_and_drink_whiskey(d1),
              trans |-> SwitchTo("EnterMineAndDigForNugget")]
        ELSE [data |-> d1, trans |-> [type |-> "Quit", st |-> NoState]]

\* MinerHandler::update
miner_update(st, d) ==
    CASE st = "EnterMineAndDigForNugget" -> dig_update(d)
      [] st = "VisitBankAndDepositGold" -> bank_update(d)
      [] st = "GoHomeAndSleepTilRested" -> home_update(d)
      [] st = "QuenchThirst" -> quench_update(d)

\* -------------------------------------------------------------- the partner
PartnerState == {"DoHouseWork", "VisitBathroom"}

\* enum PartnerChore
PartnerChore == {"Mopping", "Washing", "BedMaking"}

\* rng.gen_range(lo..hi): the values of the half-open range lo..hi
gen_range(lo, hi) == lo..(hi - 1)

\* the arms of the match in Distribution<PartnerChore>::sample
chore_of(n) ==
    CASE n = 0 -> "Mopping"
      [] n = 1 -> "Washing"
      [] n = 2 -> "BedMaking"
      [] OTHER -> "unreachable"

\* what Distribution<PartnerChore>::sample can hand to chore_of
sample == gen_range(0, 2)

\* Partner::new, with the two random draws the next DoHouseWork::update will
\* make (low: random::<f32>() < 0.1, n: the sampler's gen_range) and the chore
\* it logged last
Partner_new ==
    [location |-> "Shack", low |-> FALSE, n |-> 0, chore |-> NoState]

\* DoHouseWork::update
do_house_work_update(d) ==
    IF d.low
    THEN [data |-> d, trans |-> [type |-> "Push", st |-> "VisitBathroom"]]
    ELSE [data |-> [d EXCEPT !.chore = chore_of(d.n)], trans |-> TransNone]

\* VisitBathroom::update
visit_bathroom_update(d) ==
    [data |-> d, trans |-> [type |-> "Pop", st |-> NoState]]

\* the update of the partner's state st
partner_update(st, d) ==
    IF st = "DoHouseWork" THEN do_house_work_update(d)
    ELSE visit_bathroom_update(d)

\* ------------------------------------------------------------------ Handler
\* A machine is the triple the engine threads through a call: the stack, the
\* context and the log of callbacks.  Each callback is logged with the state
\* it is fired on and the stack as it is at that moment.
Machine(s, d, t) == [stack |-> s, data |-> d, trace |-> t]

Event(cb, st, m) == [cb |-> cb, st |-> st, stk |-> m.stack]

\* Handler::on_start as implemented by tests::Test (*data.0 += data.1) for a
\* tests::State and by MinerHandler for a MinerState; the partner's states
\* only log
on_start(st, m) ==
    [m EXCEPT !.trace = Append(@, Event("on_start", st, m)),
              !.data = IF st \in MinerState THEN miner_on_start(st, @)
                       ELSE IF st \in PartnerState THEN @
                       ELSE @ + Increment]

\* Handler::on_stop (default body, a no-op on the context)
on_stop(st, m) ==
    [m EXCEPT !.trace = Append(@, Event("on_stop", st, m))]

\* Handler::on_pause (default body, a no-op on the context)
on_pause(st, m) ==
    [m EXCEPT !.trace = Append(@, Event("on_pause", st, m))]

\* Handler::on_resume as implemented by tests::Test (self.on_start(state,
\* data)) for a tests::State and by MinerHandler for a MinerState; the
\* partner's states only log
on_resume(st, m) ==
    [m EXCEPT !.trace = Append(@, Event("on_resume", st, m)),
              !.data = IF st \in MinerState THEN miner_on_resume(st, @)
                       ELSE IF st \in PartnerState THEN @
                       ELSE @ + Increment]

\* Handler::update: the call is logged.  tests::Test leaves the context
\* alone and the request it returns is an input; MinerHandler changes the
\* miner as miner_update says
handler_update(st, m) ==
    [m EXCEPT !.trace = Append(@, Event("update", st, m)),
              !.data = IF st \in MinerState THEN miner_update(st, @).data
                       ELSE IF st \in PartnerState
                            THEN partner_update(st, @).data
                       ELSE @]

\* ------------------------------------------------------------- StateMachine
\* switch as its request's documentation words it: "Pop all states on the
\* stack and insert this one"
RECURSIVE switch_all(_, _)
switch_all(state, m) ==
    IF ~is_empty(m.stack)
    THEN switch_all(state,
                    on_stop(Top(m.stack), [m EXCEPT !.stack = Front(@)]))
    ELSE [on_start(state, m) EXCEPT !.stack = Append(@, state)]

\* switch that drops the old top without stopping it
switch_no_stop(state, m) ==
    LET m1 == IF ~is_empty(m.stack)
              THEN [m EXCEPT !.stack = Front(@)]
              ELSE m
        m2 == on_start(state, m1)
    IN  [m2 EXCEPT !.stack = Append(@, state)]

\* switch that resumes the state it exposes before it starts the new one
switch_resumes(state, m) ==
    LET m1 == IF ~is_empty(m.stack)
              THEN on_stop(Top(m.stack), [m EXCEPT !.stack = Front(@)])
              ELSE m
        m2 == IF ~is_empty(m1.stack)
              THEN on_resume(Top(m1.stack), m1)
              ELSE m1
        m3 == on_start(state, m2)
    IN  [m3 EXCEPT !.stack = Append(@, state)]

\* switch that puts the new state on the stack without starting it
switch_no_start(state, m) ==
    LET m1 == IF ~is_empty(m.stack)
              THEN on_stop(Top(m.stack), [m EXCEPT !.stack = Front(@)])
              ELSE m
    IN  [m1 EXCEPT !.stack = Append(@, state)]

\* StateMachine::switch
switch(state, m) ==
    LET m1 == IF ~is_empty(m.stack)
              THEN on_stop(Top(m.stack), [m EXCEPT !.stack = Front(@)])
              ELSE m
        m2 == on_start(state, m1)
    IN  [m2 EXCEPT !.stack = Append(@, state)]

\* push without the pause of the previous top
push_no_pause(state, m) ==
    [on_start(state, m) EXCEPT !.stack = Append(@, state)]

\* push that starts the new state before it pauses the previous top
push_start_first(state, m) ==
    LET m1 == on_start(state, m)
        m2 == IF ~is_empty(m.stack)
              THEN on_pause(Top(m.stack), m1)
              ELSE m1
    IN  [m2 EXCEPT !.stack = Append(@, state)]

\* push that pauses without looking for a previous top: the state it is
\* given is the one paused
push_pause_unguarded(state, m) ==
    LET m1 == on_pause(state, m)
        m2 == on_start(state, m1)
    IN  [m2 EXCEPT !.stack = Append(@, state)]

\* push that puts the state on the stack before it starts it
push_before_start(state, m) ==
    LET m1 == IF ~is_empty(m.stack)
              THEN on_pause(Top(m.stack), m)
              ELSE m
        m2 == [m1 EXCEPT !.stack = Append(@, state)]
    IN  on_start(state, m2)

\* StateMachine::push
push(state, m) ==
    LET m1 == IF ~is_empty(m.stack)
              THEN on_pause(Top(m.stack), m)
              ELSE m
        m2 == on_start(state, m1)
    IN  [m2 EXCEPT !.stack = Append(@, state)]

\* pop that forgets to resume the state it exposes
pop_no_resume(m) ==
    IF ~is_empty(m.stack)
    THEN on_stop(Top(m.stack), [m EXCEPT !.stack = Front(@)])
    ELSE m

\* pop that never removes the last state of the stack
pop_keep_last(m) ==
    IF Len(m.stack) > 1
    THEN LET m1 == on_stop(Top(m.stack), [m EXCEPT !.stack = Front(@)])
         IN  on_resume(Top(m1.stack), m1)
    ELSE m

\* StateMachine::pop
pop(m) ==
    LET m1 == IF ~is_empty(m.stack)
              THEN on_stop(Top(m.stack), [m EXCEPT !.stack = Front(@)])
              ELSE m
    IN  IF ~is_empty(m1.stack)
        THEN on_resume(Top(m1.stack), m1)
        ELSE m1

\* stop with an if in place of the while: one state is removed
stop_once(m) ==
    IF ~is_empty(m.stack)
    THEN on_stop(Top(m.stack), [m EXCEPT !.stack = Front(@)])
    ELSE m

\* stop written as a loop over pop: every state the unwind exposes is resumed
RECURSIVE stop_by_pop(_)
stop_by_pop(m) ==
    IF ~is_empty(m.stack) THEN stop_by_pop(pop(m)) ELSE m

\* StateMachine::stop
RECURSIVE stop(_)
stop(m) ==
    IF ~is_empty(m.stack)
    THEN stop(on_stop(Top(m.stack), [m EXCEPT !.stack = Front(@)]))
    ELSE m

\* transition that treats None as Pop
transition_none_pops(request, m) ==
    CASE request.type = "None" -> pop(m)
      [] request.type = "Pop" -> pop(m)
      [] request.type = "Push" -> push(request.st, m)
      [] request.type = "Switch" -> switch(request.st, m)
      [] request.type = "Quit" -> stop(m)

\* StateMachine::transition
transition(request, m) ==
    CASE request.type = "None" -> m
      [] request.type = "Pop" -> pop(m)
      [] request.type = "Push" -> push(request.st, m)
      [] request.type = "Switch" -> switch(request.st, m)
      [] request.type = "Quit" -> stop(m)

\* update that takes the handler's answer without a top state to ask
update_trans_unguarded(answer, m) == answer

\* The request StateMachine::update acts on: the handler's answer when there
\* is a top state to ask, None otherwise
update_trans(answer, m) ==
    IF ~is_empty(m.stack) THEN answer ELSE TransNone

\* update that applies the handler's answer whether or not a state was asked
update_always(answer, m) ==
    LET m1 == IF ~is_empty(m.stack)
              THEN handler_update(Top(m.stack), m)
              ELSE m
    IN  transition(answer, m1)

\* update that asks the first state of the stack in place of the last
update_asks_bottom(answer, m) ==
    LET m1 == IF ~is_empty(m.stack)
              THEN handler_update(m.stack[1], m)
              ELSE m
    IN  transition(update_trans(answer, m), m1)

\* StateMachine::update; answer is what handler.update returns if it is called
update(answer, m) ==
    LET m1 == IF ~is_empty(m.stack)
              THEN handler_update(Top(m.stack), m)
              ELSE m
    IN  transition(update_trans(answer, m), m1)

\* ------------------------------------------------------------ specification
Call(op, request) == [op |-> op, type |-> request.type, st |-> request.st]

Install(m, call) ==
    /\ stack' = m.stack
    /\ data' = m.data
    /\ trace' = m.trace
    /\ ops' = Append(ops, call)

\* the stack is constructed empty or with one seed state; no callback runs
Init ==
    /\ \/ /\ stack = new
          /\ ops = <<Call("new", TransNone)>>
       \/ \E s \in State :
            /\ stack = new_initial_state(s)
            /\ ops = <<Call("new_initial_state", [type |-> "Seed", st |-> s])>>
    /\ data = 0
    /\ trace = <<>>

Here == Machine(stack, data, trace)

\* a driver calls StateMachine::update; the handler answers with any request
Update ==
    /\ Len(ops) <= MaxOps
    /\ \E answer \in StateTransition :
         Install(update(answer, Here),
                 Call("update", update_trans(answer, Here)))

\* a caller calls StateMachine::push with any state
Push ==
    /\ Len(ops) <= MaxOps
    /\ \E s \in State :
         Install(push(s, Here), Call("push", [type |-> "Push", st |-> s]))

\* a caller calls StateMachine::stop
Stop ==
    /\ Len(ops) <= MaxOps
    /\ Install(stop(Here), Call("stop", [type |-> "Quit", st |-> NoState]))

Next == Update \/ Push \/ Stop

Spec == Init /\ [][Next]_vars

\* ------------------------------------------------------ the miner's driver
\* number of times the runner's loop calls update_miners
MaxMinerTicks == 120

\* init_miners: Miner::new at the shack, the stack seeded with
\* GoHomeAndSleepTilRested
MinerInit ==
    /\ stack = new_initial_state("GoHomeAndSleepTilRested")
    /\ data = Miner_new
    /\ trace = <<>>
    /\ ops = <<Call("new_initial_state",
                    [type |-> "Seed", st |-> "GoHomeAndSleepTilRested"])>>

\* what MinerHandler::update answers for the top state
miner_answer(m) ==
    IF ~is_empty(m.stack)
    THEN miner_update(Top(m.stack), m.data).trans
    ELSE TransNone

\* update_miners: one StateMachine::update with MinerHandler
MinerTick ==
    /\ Len(ops) <= MaxMinerTicks
    /\ Install(update(miner_answer(Here), Here),
               Call("update", miner_answer(Here)))

MinerNext == MinerTick

MinerSpec == MinerInit /\ [][MinerNext]_vars

\* ---------------------------------------------------- the partner's driver
\* number of times the main loop calls sm2.update
MaxPartnerTicks == 7

\* main: a default machine, Partner::new, then sm2.push(DoHouseWork)
PartnerInit ==
    LET m == push("DoHouseWork", Machine(new, Partner_new, <<>>))
    IN  /\ stack = m.stack
        /\ data = m.data
        /\ trace = m.trace
        /\ ops = <<Call("new", TransNone),
                   Call("push", [type |-> "Push", st |-> "DoHouseWork"])>>

\* the calls of sm2.update made so far
PartnerTicks == Len(ops) - 2

\* what the partner's top state answers to update
partner_answer(m) ==
    IF ~is_empty(m.stack)
    THEN partner_update(Top(m.stack), m.data).trans
    ELSE TransNone

\* sm2.update with DoHouseWork on top: the state draws a float and, through
\* the sampler, an integer
HouseWorkTick ==
    /\ PartnerTicks < MaxPartnerTicks
    /\ is_running(stack)
    /\ Top(stack) = "DoHouseWork"
    /\ \E low \in BOOLEAN, n \in sample :
          LET m == [Here EXCEPT !.data.low = low, !.data.n = n]
          IN  Install(update(partner_answer(m), m),
                      Call("update", partner_answer(m)))

\* sm2.update with VisitBathroom on top
BathroomTick ==
    /\ PartnerTicks < MaxPartnerTicks
    /\ is_running(stack)
    /\ Top(stack) = "VisitBathroom"
    /\ Install(update(partner_answer(Here), Here),
               Call("update", partner_answer(Here)))

PartnerNext == HouseWorkTick \/ BathroomTick

PartnerSpec == PartnerInit /\ [][PartnerNext]_vars

\* ------------------------------------------------------------- two agents
\* Under AgentsSpec every variable holds one value per agent: stack[a] is the
\* stack of agent a, data[a] its context, trace[a] and ops[a] its logs.
Agents == {1, 2}

\* number of update calls the scheduler makes over both agents
MaxTicks == 3

World == [a \in Agents |-> Machine(stack[a], data[a], trace[a])]

\* the scheduler's update of one agent, with a single context that every
\* agent's handler reads and writes
update_agent_shared(a, answer, w) ==
    LET m == update(answer, [w[a] EXCEPT !.data = w[1].data])
    IN  [b \in Agents |-> IF b = a THEN m ELSE [w[b] EXCEPT !.data = m.data]]

\* the scheduler's update of one agent: StateMachine::update on that agent's
\* own stack and context
update_agent(a, answer, w) ==
    [w EXCEPT ![a] = update(answer, w[a])]

\* every agent is spawned with a seeded stack and a fresh context
AgentsInit ==
    /\ \E seed \in [Agents -> State] :
         /\ stack = [a \in Agents |-> new_initial_state(seed[a])]
         /\ ops = [a \in Agents |->
                     <<Call("new_initial_state",
                            [type |-> "Seed", st |-> seed[a]])>>]
    /\ data = [a \in Agents |-> 0]
    /\ trace = [a \in Agents |-> <<>>]

Ticks == Len(ops[1]) + Len(ops[2]) - 2

AgentUpdate(a) ==
    /\ Ticks < MaxTicks
    /\ \E answer \in StateTransition :
         LET w == update_agent(a, answer, World)
         IN  /\ stack' = [b \in Agents |-> w[b].stack]
             /\ data' = [b \in Agents |-> w[b].data]
             /\ trace' = [b \in Agents |-> w[b].trace]
             /\ ops' = [ops EXCEPT ![a] =
                          Append(@, Call("update",
                                         update_trans(answer, World[a])))]

AgentsNext == AgentUpdate(1) \/ AgentUpdate(2)

AgentsSpec == AgentsInit /\ [][AgentsNext]_vars

\* ---------------------------------------------------- the StateStack alone
\* Under StackSpec the StateStack is driven through its own methods: stack is
\* the StateStack, data the value the last call returned, trace the stack
\* after the constructor and after every call, ops the calls with their
\* argument and result.
OptNone == <<>>

OptSome(s) == <<s>>

\* StateStack::last
stack_last(s) == IF Len(s) = 0 THEN OptNone ELSE OptSome(s[Len(s)])

\* pop that takes the oldest state of the stack
stack_pop_first(s) ==
    IF Len(s) = 0
    THEN [ret |-> OptNone, stack |-> s]
    ELSE [ret |-> OptSome(s[1]), stack |-> SubSeq(s, 2, Len(s))]

\* StateStack::pop
stack_pop(s) ==
    IF Len(s) = 0
    THEN [ret |-> OptNone, stack |-> s]
    ELSE [ret |-> OptSome(s[Len(s)]), stack |-> SubSeq(s, 1, Len(s) - 1)]

\* StateStack::push
stack_push(s, x) == Append(s, x)

StackCall(op, arg, ret) == [op |-> op, st |-> arg, ret |-> ret]

StackInit ==
    /\ \/ /\ stack = new
          /\ ops = <<StackCall("new", NoState, NoState)>>
       \/ \E s \in State :
            /\ stack = new_initial_state(s)
            /\ ops = <<StackCall("new_initial_state", s, NoState)>>
    /\ data = NoState
    /\ trace = <<stack>>

Returned(s, call) ==
    /\ stack' = s
    /\ data' = call.ret
    /\ trace' = Append(trace, s)
    /\ ops' = Append(ops, call)

StackPush ==
    /\ Len(ops) <= MaxOps
    /\ \E s \in State :
         Returned(stack_push(stack, s), StackCall("push", s, NoState))

StackPop ==
    /\ Len(ops) <= MaxOps
    /\ Returned(stack_pop(stack).stack,
                StackCall("pop", NoState, stack_pop(stack).ret))

StackLast ==
    /\ Len(ops) <= MaxOps
    /\ Returned(stack, StackCall("last", NoState, stack_last(stack)))

StackIsEmpty ==
    /\ Len(ops) <= MaxOps
    /\ Returned(stack, StackCall("is_empty", NoState, is_empty(stack)))

StackNext == StackPush \/ StackPop \/ StackLast \/ StackIsEmpty

StackSpec == StackInit /\ [][StackNext]_vars

\* ------------------------------------------------------- reading the logs
LastCall == ops[Len(ops)]

\* the step is one engine call applying a request of this type
Applies(type) ==
    /\ Len(ops') = Len(ops) + 1
    /\ ops'[Len(ops')].type = type

Arg == ops'[Len(ops')].st

\* the callbacks the step fired
Fired == SubSeq(trace', Len(trace) + 1, Len(trace'))

Lifecycle(seq) == SelectSeq(seq, LAMBDA e : e.cb # "update")

Calls(seq) == [i \in 1..Len(seq) |-> <<seq[i].cb, seq[i].st>>]

Below(s) == s[Len(s) - 1]

\* ------------------------------------------------------------------ claims
\* C1: a Push(v) applied to a non-empty stack (by update or by push) fires
\* on_pause once on the current top, which is still on the stack, then
\* on_start(v) once, and nothing else; afterwards the stack is the old stack
\* with v appended.
C1_PushOnNonEmpty ==
    [][(Applies("Push") /\ ~is_empty(stack)) =>
          /\ Calls(Lifecycle(Fired)) =
                <<<<"on_pause", Top(stack)>>, <<"on_start", Arg>>>>
          /\ Lifecycle(Fired)[1].stk = stack
          /\ stack' = Append(stack, Arg)
          /\ Len(stack') = Len(stack) + 1
          /\ Top(stack') = Arg]_vars

C1_Witness ==
    /\ LastCall.op = "update"
    /\ LastCall.type = "Push"
    /\ Len(stack) = 3
    /\ Len(trace) >= 2
    /\ trace[Len(trace) - 1].cb = "on_pause"

\* C2: a Pop on a stack of length >= 2 fires on_stop once on the removed top
\* and then on_resume once on the state that was directly below it, which is
\* the new top; nothing else fires and the stack loses exactly its top.
C2_PopResumes ==
    [][(Applies("Pop") /\ Len(stack) >= 2) =>
          /\ Calls(Lifecycle(Fired)) =
                <<<<"on_stop", Top(stack)>>, <<"on_resume", Below(stack)>>>>
          /\ Lifecycle(Fired)[2].stk = Front(stack)
          /\ stack' = Front(stack)
          /\ Top(stack') = Below(stack)]_vars

C2_Witness ==
    /\ LastCall.type = "Pop"
    /\ Len(stack) >= 1
    /\ Len(trace) >= 2
    /\ trace[Len(trace)].cb = "on_resume"
    /\ trace[Len(trace)].st = Top(stack)
    /\ trace[Len(trace) - 1].cb = "on_stop"

\* C3: a Pop on a stack of length 1 empties the stack, fires on_stop once on
\* the removed state and no on_resume, and is_running is false afterwards.
C3_PopLast ==
    [][(Applies("Pop") /\ Len(stack) = 1) =>
          /\ Calls(Lifecycle(Fired)) = <<<<"on_stop", Top(stack)>>>>
          /\ is_empty(stack')
          /\ ~is_running(stack')]_vars

C3_Witness ==
    /\ LastCall.type = "Pop"
    /\ is_empty(stack)
    /\ Len(trace) >= 1
    /\ trace[Len(trace)].cb = "on_stop"

C5_SwitchPopsAll ==
    [][(Applies("Switch") /\ ~is_empty(stack)) => stack' = <<Arg>>]_vars

\* C6: a Quit request or a direct stop on a stack of length n >= 0 fires
\* on_stop exactly n times, once per state from the top down, fires no other
\* lifecycle callback, and leaves the stack empty (is_running false); for
\* n = 0 nothing fires.
C6_QuitUnwinds ==
    [][Applies("Quit") =>
          /\ Len(Lifecycle(Fired)) = Len(stack)
          /\ \A i \in 1..Len(stack) :
                /\ Lifecycle(Fired)[i].cb = "on_stop"
                /\ Lifecycle(Fired)[i].st = stack[Len(stack) + 1 - i]
          /\ (is_empty(stack) => Fired = <<>>)
          /\ is_empty(stack')
          /\ ~is_running(stack')]_vars

C6_Witness ==
    /\ LastCall.type = "Quit"
    /\ is_empty(stack)
    /\ Len(trace) >= 3
    /\ \A i \in 0..2 : trace[Len(trace) - i].cb = "on_stop"
    /\ trace[Len(trace)].stk = <<>>

\* C7: update on an empty stack invokes no callback at all (not even update),
\* leaves the stack empty and the context unchanged, so is_running stays
\* false over any number of further update calls.
C7_UpdateOnEmpty ==
    [][(Len(ops') = Len(ops) + 1 /\ ops'[Len(ops')].op = "update"
          /\ is_empty(stack)) =>
          /\ Fired = <<>>
          /\ trace' = trace
          /\ is_empty(stack')
          /\ ~is_running(stack')
          /\ data' = data]_vars

C7_Witness ==
    /\ Len(ops) >= 4
    /\ ops[Len(ops) - 2].type = "Quit"
    /\ ops[Len(ops) - 1].op = "update"
    /\ LastCall.op = "update"
    /\ is_empty(stack)
    /\ Len(trace) >= 1
    /\ trace[Len(trace)].cb = "on_stop"

\* C8: seeded with new_initial_state(A), with a handler that answers Push(B)
\* to A's first update and None after, and Pop to B's first update, the
\* lifecycle callbacks over seeding and three updates are on_start(A),
\* on_pause(A), on_start(B), on_stop(B), on_resume(A), and the stack ends
\* as <<A>>.
Scenario ==
    <<Call("new_initial_state", [type |-> "Seed", st |-> "A"]),
      Call("update", [type |-> "Push", st |-> "B"]),
      Call("update", [type |-> "Pop", st |-> NoState]),
      Call("update", TransNone)>>

C8_ScenarioTrace ==
    ops = Scenario =>
        /\ Calls(Lifecycle(trace)) =
              <<<<"on_start", "A">>, <<"on_pause", "A">>, <<"on_start", "B">>,
                <<"on_stop", "B">>, <<"on_resume", "A">>>>
        /\ stack = <<"A">>

\* C9: n successive Push requests v1 .. vn on an initially empty stack leave
\* the stack as <<v1, .., vn>> (length n, top vn); every vi gets on_start
\* exactly once, and for i >= 2 on_pause fires once on v(i-1) immediately
\* before on_start(vi).
OnlyPushes ==
    /\ ops[1].op = "new"
    /\ \A i \in 2..Len(ops) : ops[i].type = "Push"

Pushed(i) == ops[i + 1].st

C9_SuccessivePushes ==
    OnlyPushes =>
        LET n == Len(ops) - 1
            lc == Calls(Lifecycle(trace))
        IN  /\ Len(stack) = n
            /\ \A i \in 1..n : stack[i] = Pushed(i)
            /\ n >= 1 => Top(stack) = Pushed(n)
            /\ Len(lc) = IF n = 0 THEN 0 ELSE 2 * n - 1
            /\ n >= 1 => lc[1] = <<"on_start", Pushed(1)>>
            /\ \A i \in 2..n :
                  /\ lc[2 * i - 2] = <<"on_pause", Pushed(i - 1)>>
                  /\ lc[2 * i - 1] = <<"on_start", Pushed(i)>>

C9_Witness ==
    /\ OnlyPushes
    /\ Len(ops) = 4
    /\ stack = <<"A", "B", "A">>
    /\ Len(trace) >= 5

\* C10: once the stack of a machine has become empty, no later update, push
\* or stop on that stack makes is_running true again.
HasStopped ==
    /\ is_empty(stack)
    /\ (ops[1].op = "new_initial_state" \/ Len(trace) > 0)

C10_NeverRestarts ==
    [][HasStopped => ~is_running(stack')]_vars

\* C10 as amended: once the stack has become empty, no later update or stop
\* makes is_running true again; a push on the emptied stack does.
C10_OnlyPushRestarts ==
    [][(HasStopped /\ Len(ops') = Len(ops) + 1) =>
          (is_running(stack') <=> ops'[Len(ops')].op = "push")]_vars

C10_Witness ==
    /\ Len(ops) >= 4
    /\ ops[Len(ops) - 2].op = "stop"
    /\ ops[Len(ops) - 1].op = "update"
    /\ LastCall.op = "push"
    /\ is_running(stack)
    /\ \E i \in 1..Len(trace) : trace[i].cb = "on_stop"

\* C11: every update call on a non-empty stack invokes handler.update exactly
\* once, before anything else, on the state that is the top of the stack at
\* the start of the call; no state below the top is ever updated.
Updates(seq) == SelectSeq(seq, LAMBDA e : e.cb = "update")

CalledUpdate ==
    /\ Len(ops') = Len(ops) + 1
    /\ ops'[Len(ops')].op = "update"

C11_UpdateAsksTop ==
    [][(CalledUpdate /\ ~is_empty(stack)) =>
          /\ Len(Updates(Fired)) = 1
          /\ Fired[1].cb = "update"
          /\ Fired[1].st = Top(stack)
          /\ Fired[1].stk = stack]_vars

C11_Witness ==
    /\ LastCall.op = "update"
    /\ LastCall.type = "None"
    /\ stack = <<"A", "B">>
    /\ trace[Len(trace)] = [cb |-> "update", st |-> "B", stk |-> <<"A", "B">>]

\* C12: when handler.update answers None, update leaves the stack as it was
\* and fires none of on_start, on_stop, on_pause, on_resume.
C12_NoneChangesNothing ==
    [][(CalledUpdate /\ Applies("None")) =>
          /\ stack' = stack
          /\ Lifecycle(Fired) = <<>>]_vars

C12_Witness ==
    /\ Len(ops) >= 3
    /\ LastCall.op = "update"
    /\ LastCall.type = "None"
    /\ Len(stack) = 2
    /\ Len(trace) >= 2
    /\ trace[Len(trace)].cb = "update"
    /\ trace[Len(trace) - 1].cb = "on_start"

\* C13: on_pause is only ever fired while a Push is applied, on the state
\* that is then the top of a non-empty stack; a Push onto an empty stack
\* fires on_start(v) only.
C13_PauseNeedsTop ==
    [][/\ \A i \in 1..Len(Fired) :
            Fired[i].cb = "on_pause" =>
                /\ Applies("Push")
                /\ ~is_empty(stack)
                /\ Fired[i].stk = stack
                /\ Fired[i].st = Top(stack)
       /\ (Applies("Push") /\ is_empty(stack)) =>
            /\ Calls(Fired) = <<<<"on_start", Arg>>>>
            /\ stack' = <<Arg>>]_vars

C13_Witness ==
    /\ ops[1].op = "new"
    /\ Len(ops) = 2
    /\ LastCall.op = "push"
    /\ Len(stack) = 1
    /\ Calls(trace) = <<<<"on_start", Top(stack)>>>>

\* C14: with the handler of tests::sm_test (on_start and on_resume add
\* Increment, update always answers Push(B)), from an empty stack and a
\* counter of 0: push(A) leaves the counter at Increment, each following
\* update adds exactly Increment (one on_start, no on_resume), and stop adds
\* nothing and leaves is_running false, whatever depth was reached.
IsTestCall(i) ==
    \/ i = 1 /\ ops[i].op = "new"
    \/ i = 2 /\ ops[i] = Call("push", [type |-> "Push", st |-> "A"])
    \/ i > 2 /\ ops[i] = Call("update", [type |-> "Push", st |-> "B"])
    \/ i > 2 /\ i = Len(ops) /\ ops[i].op = "stop"

TestRun ==
    /\ Len(ops) >= 2
    /\ \A i \in 1..Len(ops) : IsTestCall(i)

Starts(seq) == SelectSeq(seq, LAMBDA e : e.cb = "on_start")

Resumes(seq) == SelectSeq(seq, LAMBDA e : e.cb = "on_resume")

C14_TestCounter ==
    TestRun =>
        LET stopped == LastCall.op = "stop"
            n == IF stopped THEN Len(ops) - 2 ELSE Len(ops) - 1
        IN  /\ data = n * Increment
            /\ Len(Starts(trace)) = n
            /\ Resumes(trace) = <<>>
            /\ stopped => ~is_running(stack)
            /\ ~stopped => Len(stack) = n

C14_Witness ==
    /\ TestRun
    /\ Len(ops) = 5
    /\ LastCall.op = "stop"
    /\ data = 3 * Increment
    /\ is_empty(stack)

\* C15: two agents that each own their stack and context are independent:
\* an update of one agent leaves the other's stack, context and callback log
\* unchanged, and the agent's update followed by any update of the other
\* agent gives the same stacks, contexts and logs as the two in the other
\* order.
Stepped(a) == ops'[a] # ops[a]

Request(call) == [type |-> call.type, st |-> call.st]

C15_AgentsIndependent ==
    [][\A a \in Agents : Stepped(a) =>
          \A b \in Agents \ {a} :
              /\ stack'[b] = stack[b]
              /\ data'[b] = data[b]
              /\ trace'[b] = trace[b]
              /\ \A y \in StateTransition :
                    update_agent(b, y, World') =
                        update_agent(a, Request(ops'[a][Len(ops'[a])]),
                                     update_agent(b, y, World))]_vars

C15_Witness ==
    /\ Len(ops[1]) = 2
    /\ Len(ops[2]) = 3
    /\ Len(stack[1]) = 2
    /\ Len(stack[2]) = 1
    /\ data[1] = Increment
    /\ data[2] = 2 * Increment

\* C16: StateStack is a total LIFO stack: new() is empty and
\* new_initial_state(s) holds exactly s; push(s) followed by pop() returns s
\* and restores the contents from before the push; last() returns the top and
\* leaves the stack alone; pop() on an empty stack returns nothing and leaves
\* it empty; is_empty() is true exactly when no state is present.
C16_StackIsLifo ==
    /\ ops[1].op = "new" => trace[1] = <<>>
    /\ ops[1].op = "new_initial_state" => trace[1] = <<ops[1].st>>
    /\ \A k \in 2..Len(ops) :
         LET before == trace[k - 1]
             after == trace[k]
         IN  /\ ops[k].op = "push" =>
                  /\ Len(after) = Len(before) + 1
                  /\ after[Len(after)] = ops[k].st
                  /\ (k < Len(ops) /\ ops[k + 1].op = "pop") =>
                        /\ ops[k + 1].ret = OptSome(ops[k].st)
                        /\ trace[k + 1] = before
             /\ ops[k].op = "last" =>
                  /\ after = before
                  /\ ops[k].ret = IF before = <<>> THEN OptNone
                                  ELSE OptSome(before[Len(before)])
             /\ (ops[k].op = "pop" /\ before = <<>>) =>
                  /\ ops[k].ret = OptNone
                  /\ after = <<>>
             /\ ops[k].op = "is_empty" =>
                  /\ after = before
                  /\ (ops[k].ret = TRUE) <=> (Len(before) = 0)

C16_Witness ==
    /\ Len(ops) = 5
    /\ ops[1].op = "new_initial_state"
    /\ ops[2].op = "push"
    /\ ops[2].st # ops[1].st
    /\ ops[3].op = "pop"
    /\ ops[4].op = "pop"
    /\ ops[5].op = "pop"
    /\ data = OptNone
    /\ stack = <<>>

\* C17: in the miner simulation the gold the miner carries is never negative
\* and never above MAX_NUGGETS, over any number of update ticks from
\* Miner::new in GoHomeAndSleepTilRested.
C17_GoldWithinPockets ==
    /\ data.gold >= 0
    /\ data.gold <= MAX_NUGGETS

C17_Witness ==
    /\ data.gold = MAX_NUGGETS
    /\ stack = <<"VisitBankAndDepositGold">>
    /\ data.location = "Bank"
    /\ data.bank > 0

\* C18: when on_start(v) is fired for a Push(v) or a Switch(v), v has already
\* been pushed: at that moment v is the top element of the stack, that is,
\* the stack on_start sees is the stack the request leaves behind.
C18_StartAfterPush ==
    [][\A i \in 1..Len(Fired) :
          Fired[i].cb = "on_start" => Fired[i].stk = stack']_vars

\* C18 as amended: when on_start(v) is fired for a Push(v) or a Switch(v),
\* v has not been pushed yet: the stack at that moment is the stack the
\* request leaves behind without its top, and v is pushed right after, so
\* that v is the top when the request has been applied.
C18_StartBeforePush ==
    [][\A i \in 1..Len(Fired) :
          Fired[i].cb = "on_start" =>
              /\ Applies("Push") \/ Applies("Switch")
              /\ i = Len(Fired)
              /\ Fired[i].st = Arg
              /\ ~is_empty(stack')
              /\ Fired[i].stk = Front(stack')
              /\ Top(stack') = Arg]_vars

C18_Witness ==
    /\ LastCall.type = "Switch"
    /\ LastCall.st = "B"
    /\ stack = <<"A", "A", "B">>
    /\ trace[Len(trace)] = [cb |-> "on_start", st |-> "B", stk |-> <<"A", "A">>]

\* ------------------------------------------------- replaying the callbacks
\* The log is replayed on a stack of state occurrences: on_start creates an
\* occurrence above the states present, on_stop removes the top occurrence
\* (just popped), every other callback goes to the top occurrence.  The
\* replay is ok while every callback finds the occurrence it is fired on.
Occurrence(st) == [st |-> st, pause |-> 0, resume |-> 0]

ReplayInit == [alive |-> <<>>, ok |-> TRUE, unpaused_resume |-> FALSE]

OnTop(r, e) ==
    /\ Len(e.stk) >= 1
    /\ Len(r.alive) = Len(e.stk)
    /\ r.alive[Len(r.alive)].st = e.st

ReplayStep(r, e) ==
    CASE e.cb = "on_start" ->
            [r EXCEPT !.ok = @ /\ Len(r.alive) = Len(e.stk),
                      !.alive = Append(@, Occurrence(e.st))]
      [] e.cb = "on_stop" ->
            IF Len(r.alive) = Len(e.stk) + 1 /\ r.alive[Len(r.alive)].st = e.st
            THEN [r EXCEPT !.alive = Front(@)]
            ELSE [r EXCEPT !.ok = FALSE]
      [] e.cb = "update" ->
            [r EXCEPT !.ok = @ /\ OnTop(r, e)]
      [] e.cb = "on_pause" ->
            IF OnTop(r, e)
            THEN [r EXCEPT !.alive[Len(r.alive)].pause = @ + 1]
            ELSE [r EXCEPT !.ok = FALSE]
      [] e.cb = "on_resume" ->
            IF OnTop(r, e)
            THEN [r EXCEPT !.alive[Len(r.alive)].resume = @ + 1,
                           !.unpaused_resume = @ \/
                               r.alive[Len(r.alive)].pause
                                   <= r.alive[Len(r.alive)].resume]
            ELSE [r EXCEPT !.ok = FALSE]

RECURSIVE Replay(_, _)
Replay(seq, n) ==
    IF n = 0 THEN ReplayInit ELSE ReplayStep(Replay(seq, n - 1), seq[n])

Replayed == Replay(trace, Len(trace))

Stops(seq) == SelectSeq(seq, LAMBDA e : e.cb = "on_stop")

FromEmpty == ops[1].op = "new"

\* C19: for a machine started from an empty stack, after any sequence of
\* update, push and stop calls the number of on_start fired minus the number
\* of on_stop fired is the length of the stack, and every state occurrence
\* gets on_start once, before any other callback, and on_stop at most once,
\* as its last callback.
C19_LifecycleBalance ==
    FromEmpty =>
        /\ Len(Starts(trace)) - Len(Stops(trace)) = Len(stack)
        /\ Replayed.ok
        /\ [i \in 1..Len(Replayed.alive) |-> Replayed.alive[i].st] = stack

C19_Witness ==
    /\ FromEmpty
    /\ Len(ops) = 5
    /\ ops[3].type = "Push"
    /\ ops[4].type = "Switch"
    /\ ops[5].type = "Pop"
    /\ Len(stack) = 1
    /\ Len(Stops(trace)) = 2

\* C20: for a machine started from an empty stack, after any sequence of
\* calls every state occurrence below the top has received exactly one more
\* on_pause than on_resume, the top occurrence as many on_pause as
\* on_resume, and on_resume has never been fired on a state that was not
\* paused.
C20_PauseBookkeeping ==
    FromEmpty =>
        LET r == Replayed
            n == Len(r.alive)
        IN  /\ r.ok
            /\ n = Len(stack)
            /\ \A i \in 1..n :
                  r.alive[i].pause = r.alive[i].resume + (IF i < n THEN 1 ELSE 0)
            /\ ~r.unpaused_resume

C20_Witness ==
    /\ FromEmpty
    /\ Len(ops) = 5
    /\ ops[3].type = "Push"
    /\ ops[4].type = "Pop"
    /\ ops[5].type = "Push"
    /\ Len(stack) = 2
    /\ Replayed.alive[1].pause = 2
    /\ Replayed.alive[1].resume = 1

\* C21: in the miner simulation the stack holds exactly one state in every
\* reachable state: QuenchThirst is only entered with thirst above
\* THIRST_LEVEL, so its update never answers Quit, the machine never stops
\* and the driver never sees is_running false.
C21_MinerNeverQuits ==
    /\ Len(stack) = 1
    /\ is_running(stack)
    /\ \A i \in 1..Len(ops) : ops[i].type # "Quit"
    /\ Top(stack) = "QuenchThirst" =>
          /\ thirsty(data)
          /\ quench_update(data).trans.type # "Quit"

C21_Witness ==
    /\ Len(ops) >= 3
    /\ ops[Len(ops) - 1] = Call("update", SwitchTo("QuenchThirst"))
    /\ LastCall = Call("update", SwitchTo("EnterMineAndDigForNugget"))
    /\ stack = <<"EnterMineAndDigForNugget">>
    /\ data.thirst = 0

\* C22: in the miner simulation, after every update tick the miner's
\* Location is the place of the top state: the goldmine for
\* EnterMineAndDigForNugget, the bank for VisitBankAndDepositGold, the shack
\* for GoHomeAndSleepTilRested, the saloon for QuenchThirst; so it is for the
\* seeded state too, which never gets on_start.
C22_LocationMatchesState ==
    /\ ~is_empty(stack)
    /\ Top(stack) = "EnterMineAndDigForNugget" <=> data.location = "Goldmine"
    /\ Top(stack) = "VisitBankAndDepositGold" <=> data.location = "Bank"
    /\ Top(stack) = "GoHomeAndSleepTilRested" <=> data.location = "Shack"
    /\ Top(stack) = "QuenchThirst" <=> data.location = "Saloon"
    /\ Len(ops) = 1 => trace = <<>>

C22_Witness ==
    /\ stack = <<"GoHomeAndSleepTilRested">>
    /\ data.location = "Shack"
    /\ LastCall = Call("update", SwitchTo("GoHomeAndSleepTilRested"))
    /\ \E i \in 1..Len(ops) : ops[i].st = "QuenchThirst"

\* C23: in the miner simulation the bank balance is never negative: whenever
\* QuenchThirst::update buys a whiskey (bank -= 2) the bank holds at least 2.
C23_BankNeverNegative ==
    /\ data.bank >= 0
    /\ wealth(data) >= 0
    /\ (~is_empty(stack) /\ Top(stack) = "QuenchThirst") => data.bank >= 2

C23_Witness ==
    /\ Len(ops) >= 3
    /\ ops[Len(ops) - 1] = Call("update", SwitchTo("QuenchThirst"))
    /\ LastCall.op = "update"
    /\ data.thirst = 0
    /\ data.bank = 1

\* a DoHouseWork::update tick that pushes nothing and logs chore c
DoesChore(c) ==
    /\ HouseWorkTick
    /\ stack' = stack
    /\ data'.chore = c

\* C24: the partner's chore sampler can yield each of the three chores: on
\* a DoHouseWork::update tick that does not push VisitBathroom, each of
\* Mopping, Washing and BedMaking is a possible outcome.
C24_EveryChorePossible ==
    (PartnerTicks < MaxPartnerTicks /\ ~is_empty(stack)
        /\ Top(stack) = "DoHouseWork") =>
       \A c \in PartnerChore : ENABLED DoesChore(c)

====
